---------------------------- MODULE Spec2Model ----------------------------
(***************************************************************************)
(* A model of github.com/stratumn/merkle: the dynamic Merkle tree          *)
(* (dyntree.go) and the validation of Merkle paths (types/merkle.go).      *)
(*                                                                         *)
(* Pointers to DynTreeNode are node identities 1, 2, ... in creation       *)
(* order, NilPtr being the nil pointer.  A digest is a term: a leaf digest *)
(* is <<k>>, the digest of the concatenation of a and b is <<a, b>>, and   *)
(* the nil byte slice is <<>>.  Indices of the API are 0-based as in Go.   *)
(***************************************************************************)
EXTENDS Integers, Sequences, FiniteSets, TLC

\* Largest number of leaves a tree of the sequential specification grows to.
MaxLeaves == 5

\* The nil *DynTreeNode.
NilPtr == 0

\* The nil []byte: the hash of a node that was never hashed.
Nil == <<>>

\* The digests callers pass as leaves (two distinct 32-byte values).
LeafHashes == {<<1>>, <<2>>}

\* The height bookkeeping of Add that stores the new parent's height whether
\* it is larger than t.height or not.
Max_Second(a, b) == b

\* The larger of t.height and parent.height.
Max(a, b) == IF a > b THEN a ELSE b

(***************************************************************************)
(* h.Reset(); h.Write(a); h.Write(b); h.Sum(nil): SHA-256 of a || b, with  *)
(* SHA-256 collision-free.  Writing a nil slice writes nothing, so the     *)
(* digest of nil || b is the digest of b || nil.                           *)
(***************************************************************************)
HashCombine(a, b) == IF a = Nil THEN <<b, Nil>> ELSE <<a, b>>

\* DynTreeNode{hash: leaf}: the other fields are zero values.
LeafNode(leaf) ==
  [hash |-> leaf, left |-> NilPtr, right |-> NilPtr, parent |-> NilPtr, height |-> 0]

\* NewDynTree: no node, no root, no leaf, height 0, not paused.
NewDynTree ==
  [nodes |-> <<>>, root |-> NilPtr, leaves |-> <<>>, height |-> 0, paused |-> FALSE]

\* DynTreeNode.rehash that writes the node's hash and never its parent's.
rehash_NoPropagation(nodes, n, a, b, rehashParent) ==
  [nodes |-> [nodes EXCEPT ![n].hash = HashCombine(a, b)], panic |-> FALSE]

\* DynTreeNode.rehash that writes b before a into the hash.
RECURSIVE rehash_BThenA(_, _, _, _, _)
rehash_BThenA(nodes, n, a, b, rehashParent) ==
  LET ns == [nodes EXCEPT ![n].hash = HashCombine(b, a)]
      me == ns[n]
  IN  IF rehashParent /\ me.parent # NilPtr
      THEN IF me.left # NilPtr
           THEN rehash_BThenA(ns, me.parent, ns[me.left].hash, me.hash, TRUE)
           ELSE IF me.right = NilPtr
                THEN [nodes |-> ns, panic |-> TRUE]
                ELSE rehash_BThenA(ns, me.parent, me.hash, ns[me.right].hash, TRUE)
      ELSE [nodes |-> ns, panic |-> FALSE]

(***************************************************************************)
(* DynTreeNode.rehash.  The result is the node store after the hashes were *)
(* written, and whether the call dereferenced a nil pointer (n.right of a  *)
(* node that has a parent, no left and no right).                          *)
(***************************************************************************)
RECURSIVE rehash(_, _, _, _, _)
rehash(nodes, n, a, b, rehashParent) ==
  LET ns == [nodes EXCEPT ![n].hash = HashCombine(a, b)]
      me == ns[n]
  IN  IF rehashParent /\ me.parent # NilPtr
      THEN IF me.left # NilPtr
           THEN rehash(ns, me.parent, ns[me.left].hash, me.hash, TRUE)
           ELSE IF me.right = NilPtr
                THEN [nodes |-> ns, panic |-> TRUE]
                ELSE rehash(ns, me.parent, me.hash, ns[me.right].hash, TRUE)
      ELSE [nodes |-> ns, panic |-> FALSE]

\* The loop of Add that never runs: the new parent is put above the
\* previous leaf itself.
climb_Stay(nodes, left) == left

\* The loop of Add that climbs from the previous leaf while the parent is
\* exactly one level higher.
RECURSIVE climb(_, _)
climb(nodes, left) ==
  IF /\ nodes[left].parent # NilPtr
     /\ nodes[nodes[left].parent].height = nodes[left].height + 1
  THEN climb(nodes, nodes[left].parent)
  ELSE left

\* DynTree.Add that leaves left.left as it was when it hands left's left
\* sibling over to the new parent.
Add_KeepsLeftOfLeft(t, leaf) ==
  LET node   == Len(t.nodes) + 1
      nodes1 == Append(t.nodes, LeafNode(leaf))
      leaves == Append(t.leaves, node)
  IN  IF t.root = NilPtr
      THEN [t |-> [t EXCEPT !.nodes = nodes1, !.leaves = leaves, !.root = node],
            panic |-> FALSE]
      ELSE
        LET left   == climb(nodes1, leaves[Len(leaves) - 1])
            old    == nodes1[left]
            parent == node + 1
            nodes2 == Append(nodes1,
                        [hash |-> Nil, left |-> old.left, right |-> NilPtr,
                         parent |-> old.parent, height |-> old.height + 1])
            nodes3 == [nodes2 EXCEPT ![node].parent = parent, ![node].left = left,
                                     ![left].parent = parent, ![left].right = node]
            nodes4 == IF old.left # NilPtr
                      THEN [nodes3 EXCEPT ![old.left].right = parent]
                      ELSE nodes3
            root   == IF nodes4[parent].parent = NilPtr THEN parent ELSE t.root
            height == Max(t.height, nodes4[parent].height)
            hashed == IF t.paused
                      THEN [nodes |-> nodes4, panic |-> FALSE]
                      ELSE rehash(nodes4, parent, nodes4[left].hash, leaf, TRUE)
        IN  [t |-> [t EXCEPT !.nodes = hashed.nodes, !.leaves = leaves,
                             !.root = root, !.height = height],
             panic |-> hashed.panic]

\* DynTree.Add that gives the new parent the height of its left child.
Add_ParentHeightOfLeft(t, leaf) ==
  LET node   == Len(t.nodes) + 1
      nodes1 == Append(t.nodes, LeafNode(leaf))
      leaves == Append(t.leaves, node)
  IN  IF t.root = NilPtr
      THEN [t |-> [t EXCEPT !.nodes = nodes1, !.leaves = leaves, !.root = node],
            panic |-> FALSE]
      ELSE
        LET left   == climb(nodes1, leaves[Len(leaves) - 1])
            old    == nodes1[left]
            parent == node + 1
            nodes2 == Append(nodes1,
                        [hash |-> Nil, left |-> old.left, right |-> NilPtr,
                         parent |-> old.parent, height |-> old.height])
            nodes3 == [nodes2 EXCEPT ![node].parent = parent, ![node].left = left,
                                     ![left].parent = parent, ![left].right = node]
            nodes4 == IF old.left # NilPtr
                      THEN [nodes3 EXCEPT ![old.left].right = parent,
                                          ![left].left = NilPtr]
                      ELSE nodes3
            root   == IF nodes4[parent].parent = NilPtr THEN parent ELSE t.root
            height == Max(t.height, nodes4[parent].height)
            hashed == IF t.paused
                      THEN [nodes |-> nodes4, panic |-> FALSE]
                      ELSE rehash(nodes4, parent, nodes4[left].hash, leaf, TRUE)
        IN  [t |-> [t EXCEPT !.nodes = hashed.nodes, !.leaves = leaves,
                             !.root = root, !.height = height],
             panic |-> hashed.panic]

(***************************************************************************)
(* DynTree.Add: the tree after the call, and whether the call panicked.    *)
(***************************************************************************)
Add(t, leaf) ==
  LET node   == Len(t.nodes) + 1
      nodes1 == Append(t.nodes, LeafNode(leaf))
      leaves == Append(t.leaves, node)
  IN  IF t.root = NilPtr
      THEN [t |-> [t EXCEPT !.nodes = nodes1, !.leaves = leaves, !.root = node],
            panic |-> FALSE]
      ELSE
        LET left   == climb(nodes1, leaves[Len(leaves) - 1])
            old    == nodes1[left]
            parent == node + 1
            nodes2 == Append(nodes1,
                        [hash |-> Nil, left |-> old.left, right |-> NilPtr,
                         parent |-> old.parent, height |-> old.height + 1])
            nodes3 == [nodes2 EXCEPT ![node].parent = parent, ![node].left = left,
                                     ![left].parent = parent, ![left].right = node]
            nodes4 == IF old.left # NilPtr
                      THEN [nodes3 EXCEPT ![old.left].right = parent,
                                          ![left].left = NilPtr]
                      ELSE nodes3
            root   == IF nodes4[parent].parent = NilPtr THEN parent ELSE t.root
            height == Max(t.height, nodes4[parent].height)
            hashed == IF t.paused
                      THEN [nodes |-> nodes4, panic |-> FALSE]
                      ELSE rehash(nodes4, parent, nodes4[left].hash, leaf, TRUE)
        IN  [t |-> [t EXCEPT !.nodes = hashed.nodes, !.leaves = leaves,
                             !.root = root, !.height = height],
             panic |-> hashed.panic]

\* DynTree.Update that stores the leaf's hash and rehashes nothing.
Update_NoRehash(t, index, hash) ==
  IF index < 0 \/ index >= Len(t.leaves)
  THEN [t |-> t, panic |-> TRUE]
  ELSE [t |-> [t EXCEPT !.nodes[t.leaves[index + 1]].hash = hash], panic |-> FALSE]

\* DynTree.Update that returns without a word when the index is out of range.
Update_IgnoresBadIndex(t, index, hash) ==
  IF index < 0 \/ index >= Len(t.leaves)
  THEN [t |-> t, panic |-> FALSE]
  ELSE
    LET node   == t.leaves[index + 1]
        nodes1 == [t.nodes EXCEPT ![node].hash = hash]
        me     == nodes1[node]
        hashed == IF t.paused \/ me.parent = NilPtr
                  THEN [nodes |-> nodes1, panic |-> FALSE]
                  ELSE IF me.left # NilPtr
                       THEN rehash(nodes1, me.parent, nodes1[me.left].hash, hash, TRUE)
                       ELSE rehash(nodes1, me.parent, hash, nodes1[me.right].hash, TRUE)
    IN  [t |-> [t EXCEPT !.nodes = hashed.nodes], panic |-> hashed.panic]

\* DynTree.Update that rehashes the leaf's ancestors also while the tree is
\* paused.
Update_RehashWhenPaused(t, index, hash) ==
  IF index < 0 \/ index >= Len(t.leaves)
  THEN [t |-> t, panic |-> TRUE]
  ELSE
    LET node   == t.leaves[index + 1]
        nodes1 == [t.nodes EXCEPT ![node].hash = hash]
        me     == nodes1[node]
        hashed == IF me.left # NilPtr
                  THEN rehash(nodes1, me.parent, nodes1[me.left].hash, hash, TRUE)
                  ELSE IF me.right # NilPtr
                       THEN rehash(nodes1, me.parent, hash, nodes1[me.right].hash, TRUE)
                       ELSE [nodes |-> nodes1, panic |-> FALSE]
    IN  [t |-> [t EXCEPT !.nodes = hashed.nodes], panic |-> hashed.panic]

\* DynTree.Update that stores nothing while the tree is paused.
Update_NoStoreWhenPaused(t, index, hash) ==
  IF index < 0 \/ index >= Len(t.leaves)
  THEN [t |-> t, panic |-> TRUE]
  ELSE IF t.paused
       THEN [t |-> t, panic |-> FALSE]
       ELSE
         LET node   == t.leaves[index + 1]
             nodes1 == [t.nodes EXCEPT ![node].hash = hash]
             me     == nodes1[node]
             hashed == IF me.left # NilPtr
                       THEN rehash(nodes1, me.parent, nodes1[me.left].hash, hash, TRUE)
                       ELSE IF me.right # NilPtr
                            THEN rehash(nodes1, me.parent, hash, nodes1[me.right].hash, TRUE)
                            ELSE [nodes |-> nodes1, panic |-> FALSE]
         IN  [t |-> [t EXCEPT !.nodes = hashed.nodes], panic |-> hashed.panic]

(***************************************************************************)
(* DynTree.Update.  t.leaves[index] panics when index is out of range,     *)
(* before anything is written.                                             *)
(***************************************************************************)
Update(t, index, hash) ==
  IF index < 0 \/ index >= Len(t.leaves)
  THEN [t |-> t, panic |-> TRUE]
  ELSE
    LET node   == t.leaves[index + 1]
        nodes1 == [t.nodes EXCEPT ![node].hash = hash]
        me     == nodes1[node]
        hashed == IF t.paused
                  THEN [nodes |-> nodes1, panic |-> FALSE]
                  ELSE IF me.left # NilPtr
                       THEN IF me.parent = NilPtr
                            THEN [nodes |-> nodes1, panic |-> TRUE]
                            ELSE rehash(nodes1, me.parent, nodes1[me.left].hash, hash, TRUE)
                       ELSE IF me.right # NilPtr
                            THEN IF me.parent = NilPtr
                                 THEN [nodes |-> nodes1, panic |-> TRUE]
                                 ELSE rehash(nodes1, me.parent, hash, nodes1[me.right].hash, TRUE)
                            ELSE [nodes |-> nodes1, panic |-> FALSE]
    IN  [t |-> [t EXCEPT !.nodes = hashed.nodes], panic |-> hashed.panic]

\* DynTree.Pause.
Pause(t) == [t |-> [t EXCEPT !.paused = TRUE], panic |-> FALSE]

\* The inner loop of recompute that visits every node of the row, not every
\* other one.
RECURSIVE sweepRow_EveryNode(_, _, _, _, _)
sweepRow_EveryNode(nodes, rows, i, height, top) ==
  IF i > Len(rows)
  THEN [nodes |-> nodes, top |-> top, panic |-> FALSE]
  ELSE
    LET node == nodes[rows[i]]
    IN  IF node.parent # NilPtr /\ nodes[node.parent].height = height + 1
        THEN IF node.right = NilPtr
             THEN [nodes |-> nodes, top |-> top, panic |-> TRUE]
             ELSE sweepRow_EveryNode(
                    rehash(nodes, node.parent, node.hash, nodes[node.right].hash, FALSE).nodes,
                    rows, i + 1, height, Append(top, node.parent))
        ELSE sweepRow_EveryNode(nodes, rows, i + 1, height, top)

(***************************************************************************)
(* The inner loop of recompute over one row, i being the 1-based position  *)
(* of rows[i] (i = 1, 3, 5, ...): the node store, the next row and whether *)
(* node.right was nil where it is dereferenced.                            *)
(***************************************************************************)
RECURSIVE sweepRow(_, _, _, _, _)
sweepRow(nodes, rows, i, height, top) ==
  IF i > Len(rows)
  THEN [nodes |-> nodes, top |-> top, panic |-> FALSE]
  ELSE
    LET node == nodes[rows[i]]
    IN  IF node.parent # NilPtr /\ nodes[node.parent].height = height + 1
        THEN IF node.right = NilPtr
             THEN [nodes |-> nodes, top |-> top, panic |-> TRUE]
             ELSE sweepRow(
                    rehash(nodes, node.parent, node.hash, nodes[node.right].hash, FALSE).nodes,
                    rows, i + 2, height, Append(top, node.parent))
        ELSE sweepRow(nodes, rows, i + 2, height, top)

\* DynTree.recompute: the outer loop, one row after the other.
RECURSIVE recompute(_, _)
recompute(nodes, rows) ==
  IF Len(rows) < 1
  THEN [nodes |-> nodes, panic |-> FALSE]
  ELSE
    LET swept == sweepRow(nodes, rows, 1, nodes[rows[1]].height, <<>>)
    IN  IF swept.panic
        THEN [nodes |-> swept.nodes, panic |-> TRUE]
        ELSE recompute(swept.nodes, swept.top)

\* The nodes recompute rehashes, in the order it rehashes them: those it
\* appends to top, row after row.
RECURSIVE rehashed(_, _)
rehashed(nodes, rows) ==
  IF Len(rows) < 1
  THEN <<>>
  ELSE
    LET swept == sweepRow(nodes, rows, 1, nodes[rows[1]].height, <<>>)
    IN  IF swept.panic
        THEN swept.top
        ELSE swept.top \o rehashed(swept.nodes, swept.top)

\* DynTree.Resume that clears the pause flag and recomputes nothing.
Resume_NoRecompute(t) == [t |-> [t EXCEPT !.paused = FALSE], panic |-> FALSE]

\* DynTree.Resume: a panic of recompute leaves paused as it was.
Resume(t) ==
  LET done == recompute(t.nodes, t.leaves)
  IN  [t |-> [t EXCEPT !.nodes = done.nodes,
                       !.paused = IF done.panic THEN t.paused ELSE FALSE],
       panic |-> done.panic]

\* DynTree.LeavesLen.
LeavesLen(t) == Len(t.leaves)

\* DynTree.Root: t.root.Hash() dereferences a nil root on an empty tree.
Root(t) ==
  IF t.root = NilPtr
  THEN [val |-> Nil, panic |-> TRUE]
  ELSE [val |-> t.nodes[t.root].hash, panic |-> FALSE]

\* DynTree.Leaf: t.leaves[index] panics when index is out of range.
Leaf(t, index) ==
  IF index < 0 \/ index >= Len(t.leaves)
  THEN [val |-> Nil, panic |-> TRUE]
  ELSE [val |-> t.nodes[t.leaves[index + 1]].hash, panic |-> FALSE]

\* types.MerkleNodeHashes{Left, Right, Parent}.
MerkleNodeHashes(l, r, p) == [Left |-> l, Right |-> r, Parent |-> p]

\* The loop of Path that takes every node for a left child.
RECURSIVE pathClimb_AlwaysLeftChild(_, _, _, _)
pathClimb_AlwaysLeftChild(nodes, height, node, path) ==
  LET me  == nodes[node]
      sib == IF me.left # NilPtr THEN me.left ELSE me.right
  IN  IF me.parent = NilPtr
      THEN [val |-> path, panic |-> FALSE]
      ELSE pathClimb_AlwaysLeftChild(nodes, height, me.parent,
             Append(path, MerkleNodeHashes(me.hash, nodes[sib].hash,
                                           nodes[me.parent].hash)))

\* The loop of Path that stops after the leaf's own triplet.
pathClimb_OneLevel(nodes, height, node, path) ==
  LET me == nodes[node]
  IN  IF me.parent = NilPtr \/ me.right = NilPtr
      THEN [val |-> path, panic |-> FALSE]
      ELSE [val |-> <<MerkleNodeHashes(me.hash, nodes[me.right].hash,
                                       nodes[me.parent].hash)>>,
            panic |-> FALSE]

(***************************************************************************)
(* The loop of Path: path is the buffer written so far (path[:level]).     *)
(* path[level] panics once level reaches the t.height entries allocated,   *)
(* and node.right.hash panics when the node has neither sibling.           *)
(***************************************************************************)
RECURSIVE pathClimb(_, _, _, _)
pathClimb(nodes, height, node, path) ==
  LET me == nodes[node]
  IN  IF me.parent = NilPtr
      THEN [val |-> path, panic |-> FALSE]
      ELSE IF Len(path) >= height
           THEN [val |-> path, panic |-> TRUE]
           ELSE IF me.left # NilPtr
                THEN pathClimb(nodes, height, me.parent,
                       Append(path, MerkleNodeHashes(nodes[me.left].hash, me.hash,
                                                     nodes[me.parent].hash)))
                ELSE IF me.right = NilPtr
                     THEN [val |-> path, panic |-> TRUE]
                     ELSE pathClimb(nodes, height, me.parent,
                            Append(path, MerkleNodeHashes(me.hash, nodes[me.right].hash,
                                                          nodes[me.parent].hash)))

\* DynTree.Path without the return of the empty path for a tree of fewer
\* than two leaves.
Path_NoShortTree(t, index) ==
  IF index < 0 \/ index >= Len(t.leaves)
  THEN [val |-> <<>>, panic |-> TRUE]
  ELSE pathClimb(t.nodes, t.height, t.leaves[index + 1], <<>>)

\* DynTree.Path.
Path(t, index) ==
  IF Len(t.leaves) < 2
  THEN [val |-> <<>>, panic |-> FALSE]
  ELSE IF index < 0 \/ index >= Len(t.leaves)
       THEN [val |-> <<>>, panic |-> TRUE]
       ELSE pathClimb(t.nodes, t.height, t.leaves[index + 1], <<>>)

\* The nil error.
NoError == <<"nil">>

\* MerkleNodeHashes.Validate that hashes Left alone.
ValidateNode_LeftOnly(h) ==
  LET expected == HashCombine(h.Left, Nil)
  IN  IF h.Parent # expected
      THEN <<"unexpected parent hash", h.Parent, expected>>
      ELSE NoError

\* MerkleNodeHashes.Validate: nil, or the error naming the parent hash it got
\* and the one it wants.
ValidateNode(h) ==
  LET expected == HashCombine(h.Left, h.Right)
  IN  IF h.Parent # expected
      THEN <<"unexpected parent hash", h.Parent, expected>>
      ELSE NoError

\* Path.Validate that looks for the parent in the next triplet's Left only.
RECURSIVE validateFrom_ChainLeftOnly(_, _)
validateFrom_ChainLeftOnly(p, i) ==
  IF i > Len(p)
  THEN NoError
  ELSE IF ValidateNode(p[i]) # NoError
       THEN ValidateNode(p[i])
       ELSE IF i < Len(p) /\ p[i].Parent # p[i + 1].Left
            THEN <<"could not find parent hash", p[i].Parent, p[i + 1].Left, p[i + 1].Right>>
            ELSE validateFrom_ChainLeftOnly(p, i + 1)

\* Path.Validate that checks every triplet and no chaining.
RECURSIVE validateFrom_NoChain(_, _)
validateFrom_NoChain(p, i) ==
  IF i > Len(p)
  THEN NoError
  ELSE IF ValidateNode(p[i]) # NoError
       THEN ValidateNode(p[i])
       ELSE validateFrom_NoChain(p, i + 1)

\* Path.Validate from triplet i on (1-based): the first error met, or nil.
RECURSIVE validateFrom(_, _)
validateFrom(p, i) ==
  IF i > Len(p)
  THEN NoError
  ELSE IF ValidateNode(p[i]) # NoError
       THEN ValidateNode(p[i])
       ELSE IF /\ i < Len(p)
               /\ p[i].Parent # p[i + 1].Left
               /\ p[i].Parent # p[i + 1].Right
            THEN <<"could not find parent hash", p[i].Parent, p[i + 1].Left, p[i + 1].Right>>
            ELSE validateFrom(p, i + 1)

\* Path.Validate.
Validate(p) == validateFrom(p, 1)

(***************************************************************************)
(* The tree with its arena.  Memory is a sequence of DynTreeNode cells and *)
(* a pointer is a cell's position in it; a backing array is a run of cells *)
(* that make or append has allocated at the end of memory, and no cell is  *)
(* ever freed, since cells stay reachable.  The fields of such a tree:     *)
(*   nodes       the memory: every backing array t.nodes has had so far;   *)
(*   arr         t.nodes itself: the cells base+1..base+len of memory,     *)
(*               cap cells being allocated;                                *)
(*   grow        how append chooses the capacity of a new backing array;   *)
(*   initialCap  the argument of NewDynTree;                               *)
(*   made        the pointers &t.nodes[len(t.nodes)-1] that Add has taken, *)
(*               in the order it took them;                                *)
(*   root, leaves, height, paused  as in DynTree.                          *)
(* Update, Pause, Resume, Root, Leaf and Path reach nodes through t.root,  *)
(* t.leaves and the nodes' pointers only, so their operators apply to such *)
(* a tree as they are.                                                     *)
(***************************************************************************)

\* The zero DynTreeNode.
ZeroNode == LeafNode(Nil)

\* How append grows a backing array that is full: to the length needed, or
\* to twice the capacity.
GrowChoices == {"exact", "double"}

\* No tree made yet.
NoArena ==
  [nodes |-> <<>>, arr |-> [base |-> 0, len |-> 0, cap |-> 0], grow |-> "none",
   initialCap |-> 0, made |-> <<>>, root |-> NilPtr, leaves |-> <<>>,
   height |-> 0, paused |-> FALSE]

\* NewDynTree(initialCap): make([]DynTreeNode, 0, initialCap*2-1).
NewDynTreeA(initialCap, grow) ==
  [NoArena EXCEPT !.nodes = [i \in 1..(initialCap * 2 - 1) |-> ZeroNode],
                  !.arr = [base |-> 0, len |-> 0, cap |-> initialCap * 2 - 1],
                  !.grow = grow, !.initialCap = initialCap]

\* t.nodes = append(t.nodes, x): x is written after the last element when the
\* capacity allows; otherwise a new backing array is allocated, the elements
\* are copied into it and x is written after them, the old array staying as
\* it is.
appendNode(a, x) ==
  IF a.arr.len < a.arr.cap
  THEN [a EXCEPT !.nodes[a.arr.base + a.arr.len + 1] = x, !.arr.len = @ + 1]
  ELSE
    LET newcap == IF a.grow = "double" THEN 2 * a.arr.cap ELSE a.arr.len + 1
        copy   == [i \in 1..newcap |->
                     IF i <= a.arr.len THEN a.nodes[a.arr.base + i]
                     ELSE IF i = a.arr.len + 1 THEN x ELSE ZeroNode]
    IN  [a EXCEPT !.nodes = @ \o copy,
                  !.arr = [base |-> Len(a.nodes), len |-> a.arr.len + 1,
                           cap |-> newcap]]

\* &t.nodes[len(t.nodes)-1].
lastNode(a) == a.arr.base + a.arr.len

\* DynTree.Add that takes the pointer to the leaf's node again after the
\* parent was appended.
AddA_NodeAfterAppend(a, leaf) ==
  LET a1     == appendNode(a, LeafNode(leaf))
      first  == lastNode(a1)
      leaves == Append(a.leaves, first)
  IN  IF a.root = NilPtr
      THEN [t |-> [a1 EXCEPT !.leaves = leaves, !.root = first,
                             !.made = Append(@, first)],
            panic |-> FALSE]
      ELSE
        LET left   == climb(a1.nodes, leaves[Len(leaves) - 1])
            old    == a1.nodes[left]
            a2     == appendNode(a1,
                        [hash |-> Nil, left |-> old.left, right |-> NilPtr,
                         parent |-> old.parent, height |-> old.height + 1])
            parent == lastNode(a2)
            node   == lastNode(a2) - 1
            nodes3 == [a2.nodes EXCEPT ![node].parent = parent, ![node].left = left,
                                       ![left].parent = parent, ![left].right = node]
            nodes4 == IF old.left # NilPtr
                      THEN [nodes3 EXCEPT ![old.left].right = parent,
                                          ![left].left = NilPtr]
                      ELSE nodes3
            root   == IF nodes4[parent].parent = NilPtr THEN parent ELSE a.root
            height == Max(a.height, nodes4[parent].height)
            hashed == IF a.paused
                      THEN [nodes |-> nodes4, panic |-> FALSE]
                      ELSE rehash(nodes4, parent, nodes4[left].hash, leaf, TRUE)
        IN  [t |-> [a2 EXCEPT !.nodes = hashed.nodes, !.leaves = leaves,
                              !.root = root, !.height = height,
                              !.made = @ \o <<first, parent>>],
             panic |-> hashed.panic]

(***************************************************************************)
(* DynTree.Add on the tree with its arena: node and left are pointers      *)
(* taken before the parent is appended, parent is taken after.             *)
(***************************************************************************)
AddA(a, leaf) ==
  LET a1     == appendNode(a, LeafNode(leaf))
      node   == lastNode(a1)
      leaves == Append(a.leaves, node)
  IN  IF a.root = NilPtr
      THEN [t |-> [a1 EXCEPT !.leaves = leaves, !.root = node,
                             !.made = Append(@, node)],
            panic |-> FALSE]
      ELSE
        LET left   == climb(a1.nodes, leaves[Len(leaves) - 1])
            old    == a1.nodes[left]
            a2     == appendNode(a1,
                        [hash |-> Nil, left |-> old.left, right |-> NilPtr,
                         parent |-> old.parent, height |-> old.height + 1])
            parent == lastNode(a2)
            nodes3 == [a2.nodes EXCEPT ![node].parent = parent, ![node].left = left,
                                       ![left].parent = parent, ![left].right = node]
            nodes4 == IF old.left # NilPtr
                      THEN [nodes3 EXCEPT ![old.left].right = parent,
                                          ![left].left = NilPtr]
                      ELSE nodes3
            root   == IF nodes4[parent].parent = NilPtr THEN parent ELSE a.root
            height == Max(a.height, nodes4[parent].height)
            hashed == IF a.paused
                      THEN [nodes |-> nodes4, panic |-> FALSE]
                      ELSE rehash(nodes4, parent, nodes4[left].hash, leaf, TRUE)
        IN  [t |-> [a2 EXCEPT !.nodes = hashed.nodes, !.leaves = leaves,
                              !.root = root, !.height = height,
                              !.made = @ \o <<node, parent>>],
             panic |-> hashed.panic]

(***************************************************************************)
(* The sequential specification: one goroutine calls Add, Update, Pause    *)
(* and Resume on a tree t.  LeavesLen, Root, Leaf and Path write nothing:  *)
(* what they return in a state is the value of their operator there.       *)
(*   u      a second tree that receives the same Add and Update calls and  *)
(*          is never paused;                                               *)
(*   given  the digest last passed for each leaf by Add or Update;         *)
(*   ret    the last call and whether it panicked.                         *)
(***************************************************************************)
VARIABLES t, u, given, ret

(***************************************************************************)
(* The validation specification: a caller validates a path it received.    *)
(*   vorig  the path as it was built, one triplet after the other;         *)
(*   vpath  the path handed to Validate: vorig, or vorig with one field    *)
(*          of one triplet changed;                                        *)
(*   vmut   the triplet and the field that were changed, if any;           *)
(*   verr   what Validate returned for vpath.                              *)
(***************************************************************************)
VARIABLES vorig, vpath, vmut, verr

(***************************************************************************)
(* The concurrent specification: goroutines call the API of the one tree t *)
(* and every statement that reads or writes the tree is a step.            *)
(*   mutex    t.mutex: the goroutine that holds it for writing (0: none)   *)
(*            and the goroutines that hold it for reading;                 *)
(*   thr      each goroutine's call: where it is, its arguments, its       *)
(*            local variables and what it is about to return;              *)
(*   lin      the tree after the calls that took the mutex for writing so  *)
(*            far, each applied whole, in the order they took it;          *)
(*   linPrev  lin before the call that holds the mutex for writing, and    *)
(*            lin when no call does;                                       *)
(*   obs      the last call of Root, Leaf or LeavesLen, which take no      *)
(*            lock: what it returned, and what it may return if it sees    *)
(*            no write half done.                                          *)
(***************************************************************************)
VARIABLES mutex, thr, lin, linPrev, obs

(***************************************************************************)
(* The arena specification: the tree t, whose nodes never move, next to a  *)
(* tree ar that receives the same calls and keeps its nodes in the backing *)
(* arrays that append gives t.nodes.                                       *)
(***************************************************************************)
VARIABLES ar

seqVars == <<u, given, ret, ar>>

valVars == <<vorig, vpath, vmut, verr>>

conVars == <<mutex, thr, lin, linPrev, obs>>

vars == <<t, seqVars, valVars, conVars>>

\* The hash of every node, in creation order.
Hashes(tree) == [n \in 1..Len(tree.nodes) |-> tree.nodes[n].hash]

\* The indexes callers pass: every valid one, one below and one above.
Indexes(tree) == -1..Len(tree.leaves)

\* The valid leaf indexes.
Valid(tree) == 0..(Len(tree.leaves) - 1)

Returned(op, panic) == [op |-> op, panic |-> panic]

\* No mutation recorded.
NoMut == [k |-> 0, field |-> "none"]

InitSeq ==
  /\ t = NewDynTree
  /\ u = NewDynTree
  /\ given = <<>>
  /\ ret = Returned("NewDynTree", FALSE)
  /\ ar = NoArena

\* Validate on the empty path.
InitVal ==
  /\ vorig = <<>>
  /\ vpath = <<>>
  /\ vmut = NoMut
  /\ verr = Validate(<<>>)

\* The goroutines.
NumThreads == 2

Threads == 1..NumThreads

\* A goroutine that is in no call.
Idle ==
  [pc |-> "idle", op |-> "none", idx |-> -1, h |-> Nil, node |-> NilPtr,
   left |-> NilPtr, n |-> NilPtr, a |-> Nil, b |-> Nil, rows |-> <<>>,
   res |-> <<>>, panic |-> FALSE]

\* No call of Root, Leaf or LeavesLen yet.
NoObs == [op |-> "none", idx |-> -1, res |-> Nil, allowed |-> {}]

\* The mutex is free, every goroutine is idle.
InitCon ==
  /\ mutex = [w |-> 0, r |-> {}]
  /\ thr = [g \in Threads |-> Idle]
  /\ lin = NewDynTree
  /\ linPrev = NewDynTree
  /\ obs = NoObs

Init == InitSeq /\ InitVal /\ InitCon

DoAdd ==
  \E leaf \in LeafHashes :
    /\ Len(t.leaves) < MaxLeaves
    /\ t' = Add(t, leaf).t
    /\ u' = Add(u, leaf).t
    /\ given' = Append(given, leaf)
    /\ ret' = Returned("Add", Add(t, leaf).panic)
    /\ UNCHANGED <<ar, valVars, conVars>>

DoUpdate ==
  \E index \in Indexes(t), hash \in LeafHashes :
    /\ t' = Update(t, index, hash).t
    /\ u' = Update(u, index, hash).t
    /\ given' = IF index \in Valid(t) THEN [given EXCEPT ![index + 1] = hash] ELSE given
    /\ ret' = Returned("Update", Update(t, index, hash).panic)
    /\ UNCHANGED <<ar, valVars, conVars>>

DoPause ==
  /\ t' = Pause(t).t
  /\ ret' = Returned("Pause", Pause(t).panic)
  /\ UNCHANGED <<u, given, ar, valVars, conVars>>

DoResume ==
  /\ t' = Resume(t).t
  /\ ret' = Returned("Resume", Resume(t).panic)
  /\ UNCHANGED <<u, given, ar, valVars, conVars>>

Next ==
  \/ DoAdd
  \/ DoUpdate
  \/ DoPause
  \/ DoResume

Spec == Init /\ [][Next]_vars

(***************************************************************************)
(* The growth specification: one goroutine grows the tree by Add alone, to *)
(* more leaves than the sequential specification, pausing and resuming in  *)
(* between.                                                                *)
(***************************************************************************)

\* Largest number of leaves a tree of the growth specification grows to.
MaxGrowLeaves == 10

GrowAdd ==
  \E leaf \in LeafHashes :
    /\ Len(t.leaves) < MaxGrowLeaves
    /\ t' = Add(t, leaf).t
    /\ u' = Add(u, leaf).t
    /\ given' = Append(given, leaf)
    /\ ret' = Returned("Add", Add(t, leaf).panic)
    /\ UNCHANGED <<ar, valVars, conVars>>

NextG ==
  \/ GrowAdd
  \/ DoPause
  \/ DoResume

SpecG == Init /\ [][NextG]_vars

(***************************************************************************)
(* The arena specification: NewDynTree is called with some initialCap, and *)
(* then one goroutine calls Add and Update; t receives the same calls.     *)
(* Pause and Resume are applied in the properties, to every state.         *)
(***************************************************************************)

\* Largest number of leaves a tree of the arena specification grows to.
MaxArenaLeaves == 3

\* Largest initialCap passed to NewDynTree.
MaxInitialCap == 2

ArNew ==
  \E initialCap \in 1..MaxInitialCap, grow \in GrowChoices :
    /\ ar = NoArena
    /\ ar' = NewDynTreeA(initialCap, grow)
    /\ UNCHANGED <<t, u, given, ret, valVars, conVars>>

ArAdd ==
  \E leaf \in LeafHashes :
    /\ ar # NoArena
    /\ Len(ar.leaves) < MaxArenaLeaves
    /\ ar' = AddA(ar, leaf).t
    /\ t' = Add(t, leaf).t
    /\ ret' = Returned("Add", AddA(ar, leaf).panic)
    /\ UNCHANGED <<u, given, valVars, conVars>>

ArUpdate ==
  \E index \in Indexes(ar), hash \in LeafHashes :
    /\ ar # NoArena
    /\ ar' = Update(ar, index, hash).t
    /\ t' = Update(t, index, hash).t
    /\ ret' = Returned("Update", Update(ar, index, hash).panic)
    /\ UNCHANGED <<u, given, valVars, conVars>>

NextA ==
  \/ ArNew
  \/ ArAdd
  \/ ArUpdate

SpecA == Init /\ [][NextA]_vars

\* Longest path the validation specification builds.
MaxPathLen == 3

\* The hashes a triplet appended to path may have as Left and Right: a leaf
\* digest, the empty hash, or the parent of the triplet before it.
ChildChoices(path) ==
  LeafHashes \cup {Nil} \cup
    (IF path = <<>> THEN {} ELSE {path[Len(path)].Parent})

\* Its Parent: the combination of its children, or a digest that is not.
ParentChoices(l, r) == {HashCombine(l, r), <<1>>}

\* The hashes a field is changed to: a leaf digest, the empty hash, or any
\* hash of the path.
TamperChoices(path) ==
  LeafHashes \cup {Nil} \cup
    UNION {{path[k].Left, path[k].Right, path[k].Parent} : k \in 1..Len(path)}

\* The caller receives one more triplet and validates the path.
VAppend ==
  \E l, r \in ChildChoices(vorig) :
    \E p \in ParentChoices(l, r) :
      /\ vmut = NoMut
      /\ Len(vorig) < MaxPathLen
      /\ vorig' = Append(vorig, MerkleNodeHashes(l, r, p))
      /\ vpath' = vorig'
      /\ verr' = Validate(vpath')
      /\ UNCHANGED <<vmut, t, seqVars, conVars>>

\* One field of one triplet of an accepted path is changed to another hash,
\* and the caller validates the result.
VTamper ==
  \E k \in 1..Len(vorig), f \in {"Left", "Right", "Parent"} :
    \E v \in TamperChoices(vorig) :
      /\ vmut = NoMut
      /\ verr = NoError
      /\ v # vorig[k][f]
      /\ vpath' = [vorig EXCEPT ![k][f] = v]
      /\ vmut' = [k |-> k, field |-> f]
      /\ verr' = Validate(vpath')
      /\ UNCHANGED <<vorig, t, seqVars, conVars>>

NextV ==
  \/ VAppend
  \/ VTamper

SpecV == Init /\ [][NextV]_vars

\* Largest number of leaves the tree of the concurrent specification grows to.
MaxConcLeaves == 2

\* t.mutex.Lock() returns once nobody holds the mutex.
CanLock == mutex.w = 0 /\ mutex.r = {}

\* An RLock that returns also while a goroutine holds the mutex for writing.
CanRLock_Always == TRUE

\* t.mutex.RLock() returns once nobody holds the mutex for writing.
CanRLock == mutex.w = 0

\* Goroutine g, idle, calls op: t.mutex.Lock() returns and the call is at pc.
\* after is the tree that the whole call makes of lin.
Locked(g, op, pc, index, hash, after) ==
  /\ thr[g].pc = "idle"
  /\ CanLock
  /\ mutex' = [mutex EXCEPT !.w = g]
  /\ thr' = [thr EXCEPT ![g] = [Idle EXCEPT !.pc = pc, !.op = op, !.idx = index, !.h = hash]]
  /\ linPrev' = lin
  /\ lin' = after
  /\ UNCHANGED <<t, obs, seqVars, valVars>>

\* g is at pc and writes the tree; it goes on as the record next.
Step(g, pc, tree, next) ==
  /\ thr[g].pc = pc
  /\ t' = tree
  /\ thr' = [thr EXCEPT ![g] = next]
  /\ UNCHANGED <<mutex, lin, linPrev, obs, seqVars, valVars>>

\* g goes on to call rehash(h, a, b, true) on node n.
ToRehash(g, n, a, b) == [thr[g] EXCEPT !.pc = "rehash", !.n = n, !.a = a, !.b = b]

\* g goes on to the deferred Unlock, returning or panicking.
ToUnlock(g, panic) == [thr[g] EXCEPT !.pc = "unlock", !.panic = panic]

\* Add: Lock.
CAdd(g) ==
  \E leaf \in LeafHashes :
    /\ Len(t.leaves) < MaxConcLeaves
    /\ Locked(g, "Add", "add_leaf", -1, leaf, Add(lin, leaf).t)

\* Add: the leaf's node is appended to t.nodes and to t.leaves.
CAddLeaf(g) ==
  Step(g, "add_leaf",
       [t EXCEPT !.nodes = Append(@, LeafNode(thr[g].h)),
                 !.leaves = Append(@, Len(t.nodes) + 1)],
       [thr[g] EXCEPT !.pc = "add_link", !.node = Len(t.nodes) + 1])

\* Add: the first leaf becomes the root; otherwise the parent is appended
\* and the relations of node, left, parent and left's old left sibling are set.
CAddLink(g) ==
  IF t.root = NilPtr
  THEN Step(g, "add_link", [t EXCEPT !.root = thr[g].node], ToUnlock(g, FALSE))
  ELSE
    LET node   == thr[g].node
        left   == climb(t.nodes, t.leaves[Len(t.leaves) - 1])
        old    == t.nodes[left]
        parent == Len(t.nodes) + 1
        nodes2 == Append(t.nodes,
                    [hash |-> Nil, left |-> old.left, right |-> NilPtr,
                     parent |-> old.parent, height |-> old.height + 1])
        nodes3 == [nodes2 EXCEPT ![node].parent = parent, ![node].left = left,
                                 ![left].parent = parent, ![left].right = node]
        nodes4 == IF old.left # NilPtr
                  THEN [nodes3 EXCEPT ![old.left].right = parent,
                                      ![left].left = NilPtr]
                  ELSE nodes3
    IN  Step(g, "add_link", [t EXCEPT !.nodes = nodes4],
             [thr[g] EXCEPT !.pc = "add_root", !.left = left, !.n = parent])

\* Add: the root and the height are set, and rehash is called unless paused.
CAddRoot(g) ==
  LET parent == thr[g].n
  IN  Step(g, "add_root",
           [t EXCEPT !.root = IF t.nodes[parent].parent = NilPtr THEN parent ELSE @,
                     !.height = Max(@, t.nodes[parent].height)],
           IF t.paused
           THEN ToUnlock(g, FALSE)
           ELSE ToRehash(g, parent, t.nodes[thr[g].left].hash, thr[g].h))

\* One activation of rehash with rehashParent true: the node's hash is
\* written, and the parent's rehash is called if there is a parent.
CRehash(g) ==
  LET n  == thr[g].n
      ns == [t.nodes EXCEPT ![n].hash = HashCombine(thr[g].a, thr[g].b)]
      me == ns[n]
  IN  Step(g, "rehash", [t EXCEPT !.nodes = ns],
           IF me.parent # NilPtr
           THEN IF me.left # NilPtr
                THEN ToRehash(g, me.parent, ns[me.left].hash, me.hash)
                ELSE IF me.right = NilPtr
                     THEN ToUnlock(g, TRUE)
                     ELSE ToRehash(g, me.parent, me.hash, ns[me.right].hash)
           ELSE ToUnlock(g, FALSE))

\* The deferred Unlock of Add, Update, Pause and Resume; the call returns.
CUnlock(g) ==
  /\ thr[g].pc = "unlock"
  /\ mutex' = [mutex EXCEPT !.w = 0]
  /\ thr' = [thr EXCEPT ![g] = Idle]
  /\ linPrev' = lin
  /\ UNCHANGED <<t, lin, obs, seqVars, valVars>>

\* Update: Lock.
CUpdate(g) ==
  \E index \in Indexes(t), hash \in LeafHashes :
    Locked(g, "Update", "upd_store", index, hash, Update(lin, index, hash).t)

\* Update: t.leaves[index] panics or the leaf's hash is stored, and rehash is
\* called unless the tree is paused or the leaf has no sibling.
CUpdStore(g) ==
  IF thr[g].idx \notin Valid(t)
  THEN Step(g, "upd_store", t, ToUnlock(g, TRUE))
  ELSE
    LET node == t.leaves[thr[g].idx + 1]
        hash == thr[g].h
        ns   == [t.nodes EXCEPT ![node].hash = hash]
        me   == ns[node]
    IN  Step(g, "upd_store", [t EXCEPT !.nodes = ns],
             IF t.paused \/ (me.left = NilPtr /\ me.right = NilPtr)
             THEN ToUnlock(g, FALSE)
             ELSE IF me.parent = NilPtr
                  THEN ToUnlock(g, TRUE)
                  ELSE IF me.left # NilPtr
                       THEN ToRehash(g, me.parent, ns[me.left].hash, hash)
                       ELSE ToRehash(g, me.parent, hash, ns[me.right].hash))

\* Pause: Lock.
CPause(g) == Locked(g, "Pause", "pause_set", -1, Nil, Pause(lin).t)

\* Pause: t.paused = true.
CPauseSet(g) == Step(g, "pause_set", [t EXCEPT !.paused = TRUE], ToUnlock(g, FALSE))

\* Resume: Lock.
CResume(g) == Locked(g, "Resume", "res_start", -1, Nil, Resume(lin).t)

\* recompute: rows := t.leaves.
CResStart(g) ==
  Step(g, "res_start", t, [thr[g] EXCEPT !.pc = "res_row", !.rows = t.leaves])

\* recompute: one turn of the outer loop, which sweeps one row.
CResRow(g) ==
  LET rows  == thr[g].rows
      swept == sweepRow(t.nodes, rows, 1, t.nodes[rows[1]].height, <<>>)
  IN  IF Len(rows) < 1
      THEN Step(g, "res_row", t, [thr[g] EXCEPT !.pc = "res_done"])
      ELSE Step(g, "res_row", [t EXCEPT !.nodes = swept.nodes],
                IF swept.panic
                THEN ToUnlock(g, TRUE)
                ELSE [thr[g] EXCEPT !.rows = swept.top])

\* Resume: t.paused = false.
CResDone(g) == Step(g, "res_done", [t EXCEPT !.paused = FALSE], ToUnlock(g, FALSE))

\* Path: RLock.
CPath(g) ==
  \E index \in Indexes(t) :
    /\ thr[g].pc = "idle"
    /\ CanRLock
    /\ mutex' = [mutex EXCEPT !.r = @ \cup {g}]
    /\ thr' = [thr EXCEPT ![g] = [Idle EXCEPT !.pc = "path_body", !.op = "Path",
                                              !.idx = index]]
    /\ UNCHANGED <<t, lin, linPrev, obs, seqVars, valVars>>

\* Path: the body, which reads the tree and writes nothing.
CPathBody(g) ==
  Step(g, "path_body", t,
       [thr[g] EXCEPT !.pc = "path_ret", !.res = Path(t, thr[g].idx).val,
                      !.panic = Path(t, thr[g].idx).panic])

\* Path: the deferred RUnlock; the call returns.
CPathRet(g) ==
  /\ thr[g].pc = "path_ret"
  /\ mutex' = [mutex EXCEPT !.r = @ \ {g}]
  /\ thr' = [thr EXCEPT ![g] = Idle]
  /\ UNCHANGED <<t, lin, linPrev, obs, seqVars, valVars>>

NextC ==
  \/ \E g \in Threads : CAdd(g)
  \/ \E g \in Threads : CAddLeaf(g)
  \/ \E g \in Threads : CAddLink(g)
  \/ \E g \in Threads : CAddRoot(g)
  \/ \E g \in Threads : CRehash(g)
  \/ \E g \in Threads : CUnlock(g)
  \/ \E g \in Threads : CUpdate(g)
  \/ \E g \in Threads : CUpdStore(g)
  \/ \E g \in Threads : CPause(g)
  \/ \E g \in Threads : CPauseSet(g)
  \/ \E g \in Threads : CResume(g)
  \/ \E g \in Threads : CResStart(g)
  \/ \E g \in Threads : CResRow(g)
  \/ \E g \in Threads : CResDone(g)
  \/ \E g \in Threads : CPath(g)
  \/ \E g \in Threads : CPathBody(g)
  \/ \E g \in Threads : CPathRet(g)

SpecC == Init /\ [][NextC]_vars

(***************************************************************************)
(* The concurrent specification with the calls that take no lock: Root,    *)
(* Leaf and LeavesLen read the tree as it is when they run, also while     *)
(* another goroutine is in Add, Update, Pause or Resume.                   *)
(***************************************************************************)

\* What a call that takes no lock may return if it sees no write half done:
\* the value after the calls that took the mutex so far, or, while one of
\* them holds it, the value before that call.
Allowed(before, after) == IF mutex.w # 0 THEN {before, after} ELSE {after}

\* An idle goroutine calls op, which returns res.
Read(g, op, index, res, allowed) ==
  /\ thr[g].pc = "idle"
  /\ obs' = [op |-> op, idx |-> index, res |-> res, allowed |-> allowed]
  /\ UNCHANGED <<t, mutex, thr, lin, linPrev, seqVars, valVars>>

\* Root.
CRoot(g) == Read(g, "Root", -1, Root(t), Allowed(Root(linPrev), Root(lin)))

\* Leaf.
CLeaf(g) ==
  \E index \in Indexes(t) :
    Read(g, "Leaf", index, Leaf(t, index),
         Allowed(Leaf(linPrev, index), Leaf(lin, index)))

\* LeavesLen.
CLeavesLen(g) ==
  Read(g, "LeavesLen", -1, LeavesLen(t), Allowed(LeavesLen(linPrev), LeavesLen(lin)))

NextR ==
  \/ NextC
  \/ \E g \in Threads : CRoot(g)
  \/ \E g \in Threads : CLeaf(g)
  \/ \E g \in Threads : CLeavesLen(g)

SpecR == Init /\ [][NextR]_vars

(***************************************************************************)
(* Properties of the sequential specification.                             *)
(***************************************************************************)

\* The nodes whose parent is p.
Kids(tree, p) == {n \in 1..Len(tree.nodes) : tree.nodes[n].parent = p}

IsLeaf(tree, n) == \E i \in 1..Len(tree.leaves) : tree.leaves[i] = n

\* The k-th node on the way up from n along parent pointers.
RECURSIVE Ancestor(_, _, _)
Ancestor(tree, n, k) ==
  IF k = 0 THEN n ELSE Ancestor(tree, tree.nodes[n].parent, k - 1)

\* The path p with the triplets at positions a and b exchanged.
Swap(p, a, b) ==
  [k \in 1..Len(p) |-> IF k = a THEN p[b] ELSE IF k = b THEN p[a] ELSE p[k]]

\* The indexes outside [0, LeavesLen()) that callers pass.
OutOfRange(tree) == Indexes(tree) \ Valid(tree)

\* C1: whenever the tree is not paused, Root() and Path(i) for every leaf
\* are those of the tree that received the same Add and Update calls and was
\* never paused.
C1_PauseResumeTransparent ==
  ~t.paused =>
    /\ Root(t) = Root(u)
    /\ \A i \in Valid(t) : Path(t, i) = Path(u, i)

\* C1 witness: Resume has just returned on a tree of five leaves that do not
\* all carry the same digest.
C1_Witness ==
  /\ ret.op = "Resume"
  /\ ~t.paused
  /\ Len(t.leaves) >= 5
  /\ \E i, j \in Valid(t) : Leaf(t, i).val # Leaf(t, j).val

\* C2: whenever the tree is not paused, every non-leaf node has exactly two
\* children, a left one and a right one, and its hash is the combination of
\* their hashes; every leaf's hash is the digest last passed for it.
C2_HashesConsistent ==
  ~t.paused =>
    /\ \A p \in 1..Len(t.nodes) :
         ~IsLeaf(t, p) =>
           \E l, r \in Kids(t, p) :
             /\ l # r
             /\ Kids(t, p) = {l, r}
             /\ t.nodes[l].right = r
             /\ t.nodes[r].left = l
             /\ t.nodes[p].hash = HashCombine(t.nodes[l].hash, t.nodes[r].hash)
    /\ \A i \in Valid(t) : Leaf(t, i).val = given[i + 1]

\* C2 witness: an Update has returned on a tree of at least four leaves that
\* is not paused and was resumed or grown before.
C2_Witness ==
  /\ ret.op = "Update"
  /\ ~ret.panic
  /\ ~t.paused
  /\ Len(t.leaves) >= 4

\* C3: on a tree that is not paused and has two leaves or more, Path(i)
\* of every leaf validates, starts at the leaf on the side the leaf is on,
\* carries each parent into the next triplet on the side the climb is on,
\* and ends at the root.
C3_PathValidates ==
  (~t.paused /\ Len(t.leaves) >= 2) =>
    \A i \in Valid(t) :
      LET r    == Path(t, i)
          p    == r.val
          leaf == t.leaves[i + 1]
      IN  /\ ~r.panic
          /\ Len(p) >= 1
          /\ Validate(p) = NoError
          /\ IF t.nodes[leaf].left # NilPtr
             THEN p[1].Right = Leaf(t, i).val
             ELSE p[1].Left = Leaf(t, i).val
          /\ \A k \in 1..(Len(p) - 1) :
               IF t.nodes[Ancestor(t, leaf, k)].left # NilPtr
               THEN p[k + 1].Right = p[k].Parent
               ELSE p[k + 1].Left = p[k].Parent
          /\ p[Len(p)].Parent = Root(t).val

\* C3 witness: a tree that is not paused whose first leaf has a path of three
\* triplets and whose last leaf a path of one.
C3_Witness ==
  /\ ~t.paused
  /\ Len(t.leaves) = 5
  /\ Len(Path(t, 0).val) = 3
  /\ Len(Path(t, 4).val) = 1

\* C4: a step that is Update(i, h1) on a tree that is not paused is undone
\* by Update(i, h0), h0 being the leaf's hash before the step: every node has
\* its hash of before; and when h1 differs from h0 the step changes the root.
C4_UpdateRoundTrip ==
  [][\A i \in Valid(t), h1 \in LeafHashes :
       (ret'.op = "Update" /\ ~t.paused /\ t' = Update(t, i, h1).t) =>
         LET h0   == Leaf(t, i).val
             back == Update(t', i, h0)
         IN  /\ ~back.panic
             /\ Hashes(back.t) = Hashes(t)
             /\ Root(back.t) = Root(t)
             /\ (h1 # h0 => Root(t').val # Root(t).val)]_vars

\* C4 witness: an Update has returned on a tree of five leaves that is not
\* paused.
C4_Witness ==
  /\ ret.op = "Update"
  /\ ~ret.panic
  /\ ~t.paused
  /\ Len(t.leaves) >= 5

\* C9: on a tree that is not paused, exchanging two triplets of a path of
\* three triplets or more makes Validate return the chaining error of some
\* triplet, which names that triplet's parent and the next triplet's children.
C9_SwapBreaksChain ==
  ~t.paused =>
    \A i \in Valid(t) :
      LET p == Path(t, i).val
      IN  Len(p) >= 3 =>
            \A a, b \in 1..Len(p) :
              a < b =>
                LET q == Swap(p, a, b)
                    e == Validate(q)
                IN  \E k \in 1..(Len(q) - 1) :
                      e = <<"could not find parent hash",
                            q[k].Parent, q[k + 1].Left, q[k + 1].Right>>

\* C9 witness: a tree that is not paused with a path of three triplets and
\* two subtrees of equal hash.
C9_Witness ==
  /\ ~t.paused
  /\ \E i \in Valid(t) : Len(Path(t, i).val) >= 3
  /\ \E m, n \in 1..Len(t.nodes) :
       m # n /\ ~IsLeaf(t, m) /\ t.nodes[m].hash = t.nodes[n].hash

\* C10 as claimed: Leaf, Path and Update with an index out of range panic,
\* and Update leaves the tree as it was.
C10_Original ==
  \A i \in OutOfRange(t) :
    /\ Leaf(t, i).panic
    /\ Path(t, i).panic
    /\ \A h \in LeafHashes : Update(t, i, h).panic /\ Update(t, i, h).t = t

\* C10 amended: Leaf and Update with an index out of range panic and Update
\* leaves the tree as it was; Path with an index out of range panics on a
\* tree of two leaves or more and returns the empty path on a smaller tree.
C10_OutOfRange ==
  \A i \in OutOfRange(t) :
    /\ Leaf(t, i).panic
    /\ Path(t, i) = [val |-> <<>>, panic |-> Len(t.leaves) >= 2]
    /\ \A h \in LeafHashes : Update(t, i, h).panic /\ Update(t, i, h).t = t

\* C10 witness: an Update with an index out of range has panicked on a tree
\* of two leaves or more.
C10_Witness ==
  /\ ret.op = "Update"
  /\ ret.panic
  /\ Len(t.leaves) >= 2

(***************************************************************************)
(* Properties of the validation specification.                             *)
(***************************************************************************)

\* Every triplet's Parent is the combination of its Left and Right.
AllIntact(p) ==
  \A k \in 1..Len(p) : p[k].Parent = HashCombine(p[k].Left, p[k].Right)

\* Every triplet's Parent is the Left or the Right of the next triplet.
AllChained(p) ==
  \A k \in 1..(Len(p) - 1) : p[k].Parent \in {p[k + 1].Left, p[k + 1].Right}

\* C7: Validate returns nil exactly for the paths whose triplets are all
\* intact and all chained; it accepts the empty path, and a path of one
\* triplet exactly when that triplet is intact.
C7_ValidateIff ==
  /\ (verr = NoError) <=> (AllIntact(vpath) /\ AllChained(vpath))
  /\ vpath = <<>> => verr = NoError
  /\ Len(vpath) = 1 =>
       ((verr = NoError) <=>
          vpath[1].Parent = HashCombine(vpath[1].Left, vpath[1].Right))

\* C7 witness: Validate has accepted a path of three triplets.
C7_Witness ==
  /\ Len(vpath) = 3
  /\ vmut = NoMut
  /\ verr = NoError

\* C8 as claimed: changing one field of one triplet of an accepted path
\* makes Validate return the 'unexpected parent hash' error.
C8_Original ==
  vmut # NoMut => verr[1] = "unexpected parent hash"

\* C8 amended: changing one field of one triplet of an accepted path makes
\* Validate return an error: the chaining error of the triplet before when
\* the field is the Left or Right of a triplet after the first and the
\* Parent of the triplet before is no longer one of its children, and the
\* 'unexpected parent hash' error of the changed triplet otherwise.
C8_TamperRejected ==
  vmut # NoMut =>
    LET k == vmut.k
    IN  /\ verr # NoError
        /\ IF /\ k > 1
              /\ vmut.field \in {"Left", "Right"}
              /\ vpath[k - 1].Parent \notin {vpath[k].Left, vpath[k].Right}
           THEN verr = <<"could not find parent hash", vpath[k - 1].Parent,
                         vpath[k].Left, vpath[k].Right>>
           ELSE verr = <<"unexpected parent hash", vpath[k].Parent,
                         HashCombine(vpath[k].Left, vpath[k].Right)>>

\* C8 witness: the Left of the second triplet of an accepted path of three
\* was changed and Validate returned the error of that triplet.
C8_Witness ==
  /\ vmut = [k |-> 2, field |-> "Left"]
  /\ Len(vpath) = 3
  /\ verr[1] = "unexpected parent hash"

(***************************************************************************)
(* Properties of the concurrent specifications.                            *)
(***************************************************************************)

\* g is between the Lock and the Unlock of Add, Update, Pause or Resume.
InWrite(g) == thr[g].pc \notin {"idle", "path_body", "path_ret"}

\* g is between the RLock and the RUnlock of Path.
InPath(g) == thr[g].pc \in {"path_body", "path_ret"}

\* C5 as stated: a call of Root, Leaf or LeavesLen never observes a write of
\* another goroutine half done; what it returns is the value of the tree
\* before the whole Add, Update, Pause or Resume or after it.
C5_ReadsSeeWholeWrites ==
  obs.op # "none" => obs.res \in obs.allowed

\* C6: Add, Update, Pause, Resume and Path are atomic with respect to each
\* other: no goroutine is inside Add, Update, Pause or Resume while another
\* is inside one of them or inside Path; whenever no write is under way the
\* tree is the one the calls make when run one after the other in the order
\* they took the mutex; and every Path returns what it returns on that tree.
C6_Atomic ==
  /\ \A g, h \in Threads : (g # h /\ InWrite(g)) => (~InWrite(h) /\ ~InPath(h))
  /\ (\A g \in Threads : ~InWrite(g)) => t = lin
  /\ \A g \in Threads :
       thr[g].pc = "path_ret" =>
         /\ thr[g].panic = Path(lin, thr[g].idx).panic
         /\ thr[g].res = Path(lin, thr[g].idx).val

\* Two goroutines are inside Path at once, one of them about to return a path
\* that is not empty, on a tree whose leaves are not both the first digest.
C6_Witness ==
  \E g, h \in Threads :
    /\ g # h
    /\ thr[g].pc = "path_ret"
    /\ thr[g].res # <<>>
    /\ InPath(h)
    /\ t.root # NilPtr
    /\ t.nodes[t.root].hash \notin {HashCombine(a, b) : a, b \in {<<1>>}}

(***************************************************************************)
(* Further properties of the sequential specification.                     *)
(***************************************************************************)

\* C11: on a tree of no leaf or one leaf, paused or not, Path returns the
\* empty path, without panicking, for every index: valid, negative or too
\* large.
C11_ShortTreeEmptyPath ==
  Len(t.leaves) < 2 =>
    \A i \in -2..2 : Path(t, i) = [val |-> <<>>, panic |-> FALSE]

\* C11 witness: a paused tree of one leaf whose hash an Update has replaced.
C11_Witness ==
  /\ Len(t.leaves) = 1
  /\ t.paused
  /\ ret.op = "Update"
  /\ ~ret.panic

\* C12: in every state, Add, Update with a valid index, Resume and Path with
\* a valid index do not panic: none follows a nil parent or sibling or
\* indexes outside a buffer; every node that has a parent and no left
\* sibling pointer has a right sibling pointer; and no call made so far has
\* panicked but an Update with an index out of range.
C12_Total ==
  /\ \A leaf \in LeafHashes : ~Add(t, leaf).panic
  /\ \A i \in Valid(t), h \in LeafHashes : ~Update(t, i, h).panic
  /\ ~Resume(t).panic
  /\ \A i \in Valid(t) : ~Path(t, i).panic
  /\ \A n \in 1..Len(t.nodes) :
       (t.nodes[n].parent # NilPtr /\ t.nodes[n].left = NilPtr) =>
         t.nodes[n].right # NilPtr
  /\ ret.panic => ret.op = "Update"

\* C12 witness: Resume has returned on a tree of five leaves in which a
\* non-leaf node has a parent and no left sibling pointer.
C12_Witness ==
  /\ ret.op = "Resume"
  /\ Len(t.leaves) = 5
  /\ \E n \in 1..Len(t.nodes) :
       /\ ~IsLeaf(t, n)
       /\ t.nodes[n].parent # NilPtr
       /\ t.nodes[n].left = NilPtr

\* C13: LeavesLen() is the number of Add calls made so far: Add raises it
\* by one and Update, Pause and Resume leave it as it is; and for every valid
\* index Leaf returns the digest passed to that leaf's Add, or to the last
\* Update of that leaf if there was one, whether the tree is paused or not.
C13_LeavesAsGiven ==
  [][/\ LeavesLen(t') = (IF ret'.op = "Add" THEN LeavesLen(t) + 1 ELSE LeavesLen(t))
     /\ LeavesLen(t') = Len(given')
     /\ \A i \in Valid(t') : Leaf(t', i) = [val |-> given'[i + 1], panic |-> FALSE]]_vars

\* C13 witness: on a paused tree of three leaves or more, an Update has given
\* a leaf that is not the last a digest that differs from its neighbour's.
C13_Witness ==
  /\ t.paused
  /\ ret.op = "Update"
  /\ ~ret.panic
  /\ Len(t.leaves) >= 3
  /\ Leaf(t, 0).val # Leaf(t, 1).val

\* C14: on a tree of five leaves that is not paused, the path of the fifth
\* leaf has strictly fewer triplets than the path of each of the other four.
C14_LastPathShortest ==
  (~t.paused /\ Len(t.leaves) = 5) =>
    \A i \in 0..3 :
      /\ ~Path(t, i).panic
      /\ ~Path(t, 4).panic
      /\ Len(Path(t, 4).val) < Len(Path(t, i).val)

\* C14 witness: the fifth Add has returned on a tree that is not paused and
\* equals the tree that was never paused.
C14_Witness ==
  /\ ret.op = "Add"
  /\ Len(t.leaves) = 5
  /\ ~t.paused
  /\ t = u

\* C15 as claimed: every leaf has height 0, and the two children of every
\* non-leaf node have the same height, the non-leaf's height being that
\* height plus one.
C15_Original ==
  /\ \A n \in 1..Len(t.nodes) : IsLeaf(t, n) => t.nodes[n].height = 0
  /\ \A p \in 1..Len(t.nodes) :
       ~IsLeaf(t, p) =>
         \E l, r \in Kids(t, p) :
           /\ l # r
           /\ Kids(t, p) = {l, r}
           /\ t.nodes[l].height = t.nodes[r].height
           /\ t.nodes[p].height = t.nodes[l].height + 1

\* C15 amended: every leaf has height 0; every non-leaf node has a left and a
\* right child and its height is the left child's height plus one; the right
\* child is never higher than the left child, and has the same height
\* whenever the non-leaf is itself a left child.
C15_Heights ==
  /\ \A n \in 1..Len(t.nodes) : IsLeaf(t, n) => t.nodes[n].height = 0
  /\ \A p \in 1..Len(t.nodes) :
       ~IsLeaf(t, p) =>
         \E l, r \in Kids(t, p) :
           /\ l # r
           /\ Kids(t, p) = {l, r}
           /\ t.nodes[l].right = r
           /\ t.nodes[p].height = t.nodes[l].height + 1
           /\ t.nodes[r].height <= t.nodes[l].height
           /\ t.nodes[p].right # NilPtr => t.nodes[r].height = t.nodes[l].height

\* C15 witness: Add has returned on a tree where a non-leaf has a right child
\* lower than its left child and another non-leaf is a left child.
C15_Witness ==
  /\ ret.op = "Add"
  /\ \E p, l, r \in 1..Len(t.nodes) :
       /\ Kids(t, p) = {l, r}
       /\ t.nodes[l].right = r
       /\ t.nodes[r].height < t.nodes[l].height
  /\ \E p \in 1..Len(t.nodes) : ~IsLeaf(t, p) /\ t.nodes[p].right # NilPtr

\* The parent and sibling relations of node n of tree.
Relations(tree, n) == <<tree.nodes[n].parent, tree.nodes[n].left, tree.nodes[n].right>>

\* C16 as claimed: no step removes a node, and no step changes the parent,
\* the siblings or the height of a node that was there before the step.
C16_Original ==
  [][/\ Len(t'.nodes) >= Len(t.nodes)
     /\ \A n \in 1..Len(t.nodes) :
          /\ Relations(t', n) = Relations(t, n)
          /\ t'.nodes[n].height = t.nodes[n].height]_vars

\* C16 amended: nodes are created by Add only (one by the first Add, two by
\* every later one) and never removed; no step changes the height of a node
\* that was there before; Update, Pause and Resume change no relation; and
\* Add changes the relations of at most two nodes that were there before:
\* the node it pairs with the new leaf gets the new parent, the new leaf as
\* right sibling and no left sibling, and that node's former left sibling
\* gets the new parent as right sibling.
C16_Frame ==
  [][LET old     == 1..Len(t.nodes)
         changed == {n \in old : Relations(t', n) # Relations(t, n)}
         parent  == Len(t'.nodes)
         node    == Len(t'.nodes) - 1
     IN  /\ Len(t'.nodes) - Len(t.nodes) =
              (IF ret'.op # "Add" THEN 0 ELSE IF t.root = NilPtr THEN 1 ELSE 2)
         /\ \A n \in old : t'.nodes[n].height = t.nodes[n].height
         /\ ret'.op # "Add" => changed = {}
         /\ Cardinality(changed) <= 2
         /\ \A n \in changed :
              \/ Relations(t', n) = <<parent, NilPtr, node>>
              \/ /\ Relations(t', n) = <<t.nodes[n].parent, t.nodes[n].left, parent>>
                 /\ Relations(t', t.nodes[n].right) = <<parent, NilPtr, node>>]_vars

\* C16 witness: the fourth Add has returned: it paired the third leaf with
\* the new one and handed the third leaf's left sibling to the new parent.
C16_Witness ==
  /\ ret.op = "Add"
  /\ Len(t.leaves) = 4
  /\ t.nodes[t.leaves[3]].left = NilPtr
  /\ t.nodes[t.nodes[t.leaves[3]].parent].left # NilPtr

\* C17: every node has at most one of its left and right sibling pointers
\* set; a node without a parent (the root, a lone leaf) has neither and a
\* node with a parent has exactly one; and the pointers are mutual: n's left
\* sibling is m exactly when m's right sibling is n, and then both have the
\* same parent.
C17_Siblings ==
  \A n \in 1..Len(t.nodes) :
    LET me == t.nodes[n]
    IN  /\ me.left = NilPtr \/ me.right = NilPtr
        /\ me.parent = NilPtr => (me.left = NilPtr /\ me.right = NilPtr /\ n = t.root)
        /\ me.parent # NilPtr => (me.left # NilPtr \/ me.right # NilPtr)
        /\ me.left # NilPtr =>
             /\ t.nodes[me.left].right = n
             /\ t.nodes[me.left].parent = me.parent
        /\ me.right # NilPtr =>
             /\ t.nodes[me.right].left = n
             /\ t.nodes[me.right].parent = me.parent

\* C17 witness: Add has returned on a tree in which a non-leaf node has a
\* left sibling that is a non-leaf too, and a leaf has no sibling on its left.
C17_Witness ==
  /\ ret.op = "Add"
  /\ \E n \in 1..Len(t.nodes) :
       /\ ~IsLeaf(t, n)
       /\ t.nodes[n].left # NilPtr
       /\ ~IsLeaf(t, t.nodes[n].left)
  /\ \E i \in Valid(t) : i > 0 /\ t.nodes[t.leaves[i + 1]].left = NilPtr

\* The walk from node n along parent pointers: the node without parent it
\* ends at and the number of steps taken.
RECURSIVE Walk(_, _, _)
Walk(tree, n, steps) ==
  IF tree.nodes[n].parent = NilPtr \/ steps > Len(tree.nodes)
  THEN [top |-> n, steps |-> steps]
  ELSE Walk(tree, tree.nodes[n].parent, steps + 1)

\* C18: in every state with one leaf or more, t.root is the only node without
\* a parent; the walk from every leaf along parent pointers ends at t.root
\* after at most t.height steps; and Path of that leaf does not panic and
\* returns one triplet for each step, never more than the t.height triplets
\* it allocates.
C18_RootAndHeight ==
  Len(t.leaves) >= 1 =>
    /\ {n \in 1..Len(t.nodes) : t.nodes[n].parent = NilPtr} = {t.root}
    /\ \A i \in Valid(t) :
         LET w == Walk(t, t.leaves[i + 1], 0)
         IN  /\ w.top = t.root
             /\ w.steps <= t.height
             /\ ~Path(t, i).panic
             /\ Len(Path(t, i).val) = w.steps

\* C18 witness: a tree whose last Add made a parent lower than the tree: one
\* leaf is t.height steps from the root and another is fewer.
C18_Witness ==
  /\ ret.op = "Add"
  /\ Len(t.leaves) >= 6
  /\ t.nodes[Len(t.nodes)].height < t.height
  /\ \E i, j \in Valid(t) :
       /\ Walk(t, t.leaves[i + 1], 0).steps = t.height
       /\ Walk(t, t.leaves[j + 1], 0).steps < t.height

\* C19: in every state, Resume returns without panicking, and the sweep of
\* recompute rehashes every non-leaf node exactly once, each after those of
\* its children that are not leaves; after it every non-leaf's hash is the
\* combination of its children's hashes.
C19_SweepOnce ==
  LET order == rehashed(t.nodes, t.leaves)
      done  == Resume(t)
  IN  /\ ~done.panic
      /\ Len(order) = Len(t.nodes) - Len(t.leaves)
      /\ {order[k] : k \in 1..Len(order)} = {n \in 1..Len(t.nodes) : ~IsLeaf(t, n)}
      /\ \A k \in 1..Len(order) :
           \A c \in Kids(t, order[k]) :
             IsLeaf(t, c) \/ \E j \in 1..(k - 1) : order[j] = c
      /\ \A p \in 1..Len(t.nodes) :
           ~IsLeaf(t, p) =>
             \E l, r \in Kids(t, p) :
               /\ done.t.nodes[l].right = r
               /\ done.t.nodes[p].hash =
                    HashCombine(done.t.nodes[l].hash, done.t.nodes[r].hash)

\* C19 witness: a paused tree of seven leaves or more, all added since the
\* Pause, so that no non-leaf node has a hash, with a row in which the sweep
\* passes over a node whose parent is more than one level higher.
C19_Witness ==
  /\ t.paused
  /\ Len(t.leaves) >= 7
  /\ \A n \in 1..Len(t.nodes) : ~IsLeaf(t, n) => t.nodes[n].hash = Nil
  /\ \E n \in 1..Len(t.nodes) :
       /\ ~IsLeaf(t, n)
       /\ t.nodes[n].parent # NilPtr
       /\ t.nodes[t.nodes[n].parent].height > t.nodes[n].height + 1

\* The tree without its hashes and its pause flag: every node's relations
\* and height, the root, the leaves and the height.
Shape(tree) ==
  [nodes  |-> [n \in 1..Len(tree.nodes) |->
                 <<Relations(tree, n), tree.nodes[n].height>>],
   root   |-> tree.root,
   leaves |-> tree.leaves,
   height |-> tree.height]

\* C20: an Add or an Update on a paused tree changes the hash of no non-leaf
\* node, gives a new non-leaf node no hash and stores the leaf's hash; after
\* every step the relations, heights, root, leaves and height of the tree
\* are those of the tree that received the same calls and was never
\* paused; and the pause flag changes only when Pause sets it or Resume
\* clears it, which they always do.
C20_PausedFrame ==
  [][/\ (t.paused /\ ret'.op \in {"Add", "Update"}) =>
          /\ \A n \in 1..Len(t'.nodes) :
               ~IsLeaf(t', n) =>
                 t'.nodes[n].hash = (IF n <= Len(t.nodes) THEN t.nodes[n].hash ELSE Nil)
          /\ \A i \in Valid(t') : Leaf(t', i).val = given'[i + 1]
     /\ Shape(t') = Shape(u')
     /\ ret'.op = "Pause" => t'.paused
     /\ ret'.op = "Resume" => ~t'.paused
     /\ ret'.op \notin {"Pause", "Resume"} => t'.paused = t.paused]_vars

\* C20 witness: on a paused tree, some of whose non-leaf nodes have a hash
\* and some none, an Update has replaced a leaf's hash, so that the hash of
\* the leaf's parent is no longer the combination of its children's.
C20_Witness ==
  /\ t.paused
  /\ ret.op = "Update"
  /\ ~ret.panic
  /\ \E n, m \in 1..Len(t.nodes) :
       /\ ~IsLeaf(t, n) /\ t.nodes[n].hash = Nil
       /\ ~IsLeaf(t, m) /\ t.nodes[m].hash # Nil
       /\ \E l, r \in Kids(t, m) :
            /\ t.nodes[l].right = r
            /\ t.nodes[m].hash # HashCombine(t.nodes[l].hash, t.nodes[r].hash)

(***************************************************************************)
(* Properties of the arena specification.                                  *)
(***************************************************************************)

\* The pointer of the tree a with its arena that stands for the pointer p of
\* the tree whose nodes never move.
InArena(a, p) == IF p = NilPtr THEN NilPtr ELSE a.made[p]

\* The node n of tree with its pointers as pointers of a.
NodeInArena(a, tree, n) ==
  [tree.nodes[n] EXCEPT !.left = InArena(a, @), !.right = InArena(a, @),
                        !.parent = InArena(a, @)]

\* Every pointer Add has taken in a designates a cell of its own that holds
\* the node of tree, pointers included; the root and the leaves designate
\* those cells; and Root, LeavesLen, Leaf and Path return the same.
SameTree(a, tree) ==
  /\ Len(a.made) = Len(tree.nodes)
  /\ \A m, n \in 1..Len(a.made) : m # n => a.made[m] # a.made[n]
  /\ \A n \in 1..Len(tree.nodes) : a.nodes[a.made[n]] = NodeInArena(a, tree, n)
  /\ a.root = InArena(a, tree.root)
  /\ a.leaves = [i \in 1..Len(tree.leaves) |-> InArena(a, tree.leaves[i])]
  /\ a.height = tree.height
  /\ a.paused = tree.paused
  /\ Root(a) = Root(tree)
  /\ LeavesLen(a) = LeavesLen(tree)
  /\ \A i \in Indexes(tree) : Leaf(a, i) = Leaf(tree, i) /\ Path(a, i) = Path(tree, i)

\* C21: whatever initialCap the tree was made with and however append grows
\* the backing array, after every sequence of Add and Update the tree is the
\* same as the tree whose nodes never move: every pointer designates the same
\* node, and Root, Leaf and Path return the same.  It stays the same through
\* a Pause, an Add or an Update and the Resume that follows, and Add, Update
\* and Resume panic on the one when they do on the other.  As long as the
\* first backing array suffices the two trees are equal pointer by pointer.
C21_ArenaGrowth ==
  ar # NoArena =>
    /\ SameTree(ar, t)
    /\ \A leaf \in LeafHashes :
         LET pa == AddA(Pause(ar).t, leaf).t
             pt == Add(Pause(t).t, leaf).t
             ra == Resume(pa).t
             rt == Resume(pt).t
         IN  /\ AddA(ar, leaf).panic = Add(t, leaf).panic
             /\ SameTree(pa, pt)
             /\ SameTree(ra, rt)
    /\ \A i \in Indexes(t), h \in LeafHashes :
         Update(ar, i, h).panic = Update(t, i, h).panic
    /\ \A i \in Valid(t), h \in LeafHashes :
         LET ra == Resume(Update(Pause(ar).t, i, h).t).t
             rt == Resume(Update(Pause(t).t, i, h).t).t
         IN  SameTree(ra, rt)
    /\ Resume(ar).panic = Resume(t).panic
    /\ ar.arr.base = 0 =>
         /\ \A n \in 1..Len(t.nodes) : ar.made[n] = n
         /\ ar.arr.len = Len(t.nodes)

\* C21 witness: an Update has returned on a tree of three leaves or more
\* whose backing array was replaced, so that the leaf updated is in a backing
\* array that is no longer t.nodes's and the copy of it in the current one
\* holds another hash.
C21_Witness ==
  /\ ar # NoArena
  /\ ret.op = "Update"
  /\ ~ret.panic
  /\ Len(ar.leaves) >= 3
  /\ \E i \in 1..Len(ar.leaves) :
       /\ ar.leaves[i] <= ar.arr.base
       /\ \E c \in (ar.arr.base + 1)..(ar.arr.base + ar.arr.len) :
            /\ ar.nodes[c].height = 0
            /\ ar.nodes[c].hash \in LeafHashes
            /\ ar.nodes[c].hash # ar.nodes[ar.leaves[i]].hash
            /\ \A j \in 1..Len(ar.leaves) : ar.leaves[j] # c

(***************************************************************************)
(* Further properties of the growth specification.                         *)
(***************************************************************************)

\* The largest power of two strictly less than n (n >= 2), from p on.
RECURSIVE SplitPoint(_, _)
SplitPoint(n, p) == IF 2 * p < n THEN SplitPoint(n, 2 * p) ELSE p

\* M(h1..hn): the hash itself for one hash, and otherwise the combination of
\* M of the first k hashes and M of the rest, k being the largest power of
\* two strictly less than n.
RECURSIVE M(_)
M(hs) ==
  IF Len(hs) = 1
  THEN hs[1]
  ELSE LET k == SplitPoint(Len(hs), 1)
       IN  HashCombine(M(SubSeq(hs, 1, k)), M(SubSeq(hs, k + 1, Len(hs))))

\* C22: after N >= 1 Add calls the tree holds exactly 2N-1 nodes, N of them
\* leaves, the first Add creating one node and every later Add two, a leaf
\* and one non-leaf; and whenever the tree is not paused Root() is M of the
\* hashes added, in the order they were added.
C22_RootIsM ==
  [][Len(t'.leaves) >= 1 =>
       /\ Len(t'.nodes) = 2 * Len(t'.leaves) - 1
       /\ Cardinality({n \in 1..Len(t'.nodes) : IsLeaf(t', n)}) = Len(t'.leaves)
       /\ ret'.op = "Add" =>
            Len(t'.nodes) - Len(t.nodes) = (IF Len(t.leaves) = 0 THEN 1 ELSE 2)
       /\ ~t'.paused => Root(t') = [val |-> M(given'), panic |-> FALSE]]_vars

\* C22 witness: Add has returned on a tree of seven leaves or more that is
\* not paused and whose leaves do not all have the same hash.
C22_Witness ==
  /\ ret.op = "Add"
  /\ ~t.paused
  /\ Len(t.leaves) >= 7
  /\ \E i, j \in Valid(t) : Leaf(t, i).val # Leaf(t, j).val

=============================================================================
